---- MODULE Spec2Model ----
(***************************************************************************)
(* Model of the dynamic ETL pipeline: the schema generator                 *)
(* (dynamic_etl/schema.py), the parser engine (dynamic_etl/parsers.py),    *)
(* the storage wrapper (dynamic_etl/storage.py) and the orchestrator       *)
(* (dynamic_etl/pipeline.py).                                              *)
(*                                                                         *)
(* Strings that the code inspects character by character (field paths,     *)
(* collection names, keys) are sequences of one-character strings.         *)
(* Floats that the code rounds to two decimals are integers in hundredths. *)
(***************************************************************************)
EXTENDS Integers, Sequences, FiniteSets, TLC

VARIABLES
    b_records,      \* SchemaGenerator.build: the records argument
    b_previous,     \* SchemaGenerator.build: the previous_schema argument
    b_result,       \* SchemaGenerator.build: what the call produced, or NotCalled
    d_previous,     \* SchemaGenerator._diff: the previous argument
    d_current,      \* SchemaGenerator._diff: the current argument
    d_result,       \* SchemaGenerator._diff: the report returned, or NoneDoc
    p_text,         \* ParserEngine.parse: the text argument, as its pattern matches
    p_stage,        \* ParserEngine.parse: the extractor to run next
    p_fragments,    \* ParserEngine.parse: fragments
    p_summary,      \* ParserEngine.parse: summary
    p_records,      \* ParserEngine.parse: records
    p_raised,       \* ParserEngine.parse: the exception that left the call
    schemas,        \* MongoStorage.schemas: (source_id, version) -> stored document
    db_records,     \* MongoStorage.records: the documents in insertion order
    local_schemas,  \* outputs/schemas/<source_id>/schema_v<version>.json
    local_records,  \* outputs/records/<source_id>/records_v<version>.json
    calls,          \* DynamicETLPipeline.process: the locals of each call
    ddl_fields,     \* SchemaGenerator._build_postgres_ddl: schema["fields"]
    ddl_result      \* SchemaGenerator._build_postgres_ddl: the DDL, or NoneDoc

build_vars == <<b_records, b_previous, b_result>>

diff_vars == <<d_previous, d_current, d_result>>

parse_vars == <<p_text, p_stage, p_fragments, p_summary, p_records, p_raised>>

store_vars == <<schemas, db_records, local_schemas, local_records, calls>>

ddl_vars == <<ddl_fields, ddl_result>>

vars == <<b_records, b_previous, b_result, d_previous, d_current, d_result,
          p_text, p_stage, p_fragments, p_summary, p_records, p_raised,
          schemas, db_records, local_schemas, local_records, calls,
          ddl_fields, ddl_result>>

(***************************************************************************)
(* Bounds of the model.                                                    *)
(***************************************************************************)
MaxRecords == 3     \* records handed to one build call
MaxDiffRecords == 2 \* records behind each schema handed to _diff
MaxCandidates == 2  \* matches of each pattern in one text
MaxCalls == 2       \* process calls
MaxDdlFields == 2   \* fields of a schema handed to _build_postgres_ddl

(***************************************************************************)
(* Characters and strings.                                                 *)
(***************************************************************************)
\* The characters that occur in paths, in code point order.
CharOrder ==
    << " ", "$", "-", ".", "0", "1", "2", "3", "4", "5", "6", "7", "8", "9",
       "D", "I", "[", "]", "_",
       "a", "b", "c", "d", "e", "h", "i", "j", "k", "l", "m", "n", "o", "p",
       "q", "r", "s", "t", "u", "v", "x", "y" >>

Chars == { CharOrder[i] : i \in 1..Len(CharOrder) }

\* Position of a character in code point order (order-preserving stand-in
\* for ord()).
Ord == [ c \in Chars |-> CHOOSE i \in 1..Len(CharOrder) : CharOrder[i] = c ]

\* str.__lt__ on two strings: lexicographic by code point.
RECURSIVE StrLess(_, _)
StrLess(s, t) ==
    IF t = <<>> THEN FALSE
    ELSE IF s = <<>> THEN TRUE
    ELSE IF Head(s) = Head(t) THEN StrLess(Tail(s), Tail(t))
    ELSE Ord[Head(s)] < Ord[Head(t)]

\* A slip that sorts downwards.
RECURSIVE SortStrings_descending(_)
SortStrings_descending(S) ==
    IF S = {} THEN <<>>
    ELSE LET greatest == CHOOSE s \in S : \A t \in S \ {s} : StrLess(t, s)
         IN  <<greatest>> \o SortStrings_descending(S \ {greatest})

\* sorted() over a set of distinct strings.
RECURSIVE SortStrings(_)
SortStrings(S) ==
    IF S = {} THEN <<>>
    ELSE LET least == CHOOSE s \in S : \A t \in S \ {s} : StrLess(s, t)
         IN  <<least>> \o SortStrings(S \ {least})

\* str(idx) for a list index.
Digits == << "0", "1", "2", "3", "4", "5", "6", "7", "8", "9" >>

RECURSIVE IntToStr(_)
IntToStr(n) ==
    IF n < 10 THEN << Digits[n + 1] >>
    ELSE IntToStr(n \div 10) \o << Digits[(n % 10) + 1] >>

\* A slip that ignores the case of the text.
EndsWith_ignore_case(s, suffix) ==
    LET low(c) == IF c = "D" THEN "d" ELSE IF c = "I" THEN "i" ELSE c
        t == [ i \in 1..Len(s) |-> low(s[i]) ]
    IN  /\ Len(t) >= Len(suffix)
        /\ SubSeq(t, Len(t) - Len(suffix) + 1, Len(t)) = suffix

\* str.endswith
EndsWith(s, suffix) ==
    /\ Len(s) >= Len(suffix)
    /\ SubSeq(s, Len(s) - Len(suffix) + 1, Len(s)) = suffix

\* path.split(".")[-1]: the text after the last dot (the whole string when
\* there is none).
RECURSIVE LastSegment(_)
LastSegment(s) ==
    IF \A i \in 1..Len(s) : s[i] # "." THEN s
    ELSE LastSegment(Tail(s))

(***************************************************************************)
(* Python values.  A value carries its class; lists carry their items,     *)
(* dicts their keys (in insertion order) and the items under them.         *)
(***************************************************************************)
PyValue(cls) == [cls |-> cls, keys |-> <<>>, items |-> <<>>]

PyNone  == PyValue("NoneType")
PyBool  == PyValue("bool")
PyInt   == PyValue("int")
PyFloat == PyValue("float")
PyStr   == PyValue("str")
PyDate  == PyValue("date")      \* any other object, e.g. a YAML date

\* A str whose characters matter.
PyStrOf(text) == [cls |-> "str", keys |-> <<>>, items |-> <<>>, text |-> text]

PyList(items) == [cls |-> "list", keys |-> <<>>, items |-> items]

PyDict(keys, items) == [cls |-> "dict", keys |-> keys, items |-> items]

\* isinstance(value, cls); bool is a subclass of int.
isinstance(value, cls) ==
    \/ value.cls = cls
    \/ cls = "int" /\ value.cls = "bool"

\* dict.update on path -> value mappings.
DictUpdate(items, other) ==
    [ p \in DOMAIN items \cup DOMAIN other |->
        IF p \in DOMAIN other THEN other[p] ELSE items[p] ]

EmptyDict == [ p \in {} |-> PyNone ]

(***************************************************************************)
(* schema.py: flatten                                                      *)
(***************************************************************************)
RECURSIVE flatten(_, _)
RECURSIVE FlattenDictItems(_, _, _)
RECURSIVE FlattenListItems(_, _, _)

\* for key, value in document.items(): ...  from the i-th item on
FlattenDictItems(document, prefix, i) ==
    IF i > Len(document.keys) THEN EmptyDict
    ELSE LET key == document.keys[i]
             child_prefix == IF prefix # <<>> THEN prefix \o <<".">> \o key
                             ELSE key
         IN  DictUpdate(flatten(document.items[i], child_prefix),
                        FlattenDictItems(document, prefix, i + 1))

\* for idx, value in enumerate(document): ...  from the i-th item on
FlattenListItems(document, prefix, i) ==
    IF i > Len(document.items) THEN EmptyDict
    ELSE LET child_prefix == prefix \o <<"[">> \o IntToStr(i - 1) \o <<"]">>
         IN  DictUpdate(flatten(document.items[i], child_prefix),
                        FlattenListItems(document, prefix, i + 1))

flatten(document, prefix) ==
    IF isinstance(document, "dict") THEN FlattenDictItems(document, prefix, 1)
    ELSE IF isinstance(document, "list") THEN FlattenListItems(document, prefix, 1)
    ELSE [ p \in {prefix} |-> document ]

(***************************************************************************)
(* schema.py: infer_type                                                   *)
(***************************************************************************)
\* A slip that tests int before bool.
infer_type_int_first(value) ==
    IF value.cls = "NoneType" THEN "null"
    ELSE IF isinstance(value, "int") THEN "integer"
    ELSE IF isinstance(value, "bool") THEN "boolean"
    ELSE IF isinstance(value, "float") THEN "number"
    ELSE IF isinstance(value, "list") THEN "array"
    ELSE IF isinstance(value, "dict") THEN "object"
    ELSE "string"

infer_type(value) ==
    IF value.cls = "NoneType" THEN "null"
    ELSE IF isinstance(value, "bool") THEN "boolean"
    ELSE IF isinstance(value, "int") THEN "integer"
    ELSE IF isinstance(value, "float") THEN "number"
    ELSE IF isinstance(value, "list") THEN "array"
    ELSE IF isinstance(value, "dict") THEN "object"
    ELSE "string"

\* The type tags in lexicographic order; sorted() of a set of tags.
TagOrder == << "array", "boolean", "integer", "null", "number", "object", "string" >>

SortedTags(types) == SelectSeq(TagOrder, LAMBDA t : t \in types)

(***************************************************************************)
(* schema.py: SchemaGenerator                                              *)
(***************************************************************************)
\* None where a schema document or a diff is expected.
NoneDoc == [cls |-> "NoneType"]

\* self.compatible_dbs
compatible_dbs == << "mongodb", "postgresql" >>

\* The default entry of field_stats.
DefaultStats == [count |-> 0, nullable |-> FALSE, types |-> {}]

EmptyStats == [ p \in {} |-> DefaultStats ]

\* A slip that writes the flag on every sighting instead of only raising it.
ObserveValue_reset(stats, value) ==
    [ count    |-> stats.count + 1,
      nullable |-> (value.cls = "NoneType"),
      types    |-> IF value.cls = "NoneType" THEN stats.types
                   ELSE stats.types \cup {infer_type(value)} ]

\* The body of the inner loop of build: one (path, value) sighting.
ObserveValue(stats, value) ==
    [ count    |-> stats.count + 1,
      nullable |-> IF value.cls = "NoneType" THEN TRUE ELSE stats.nullable,
      types    |-> IF value.cls = "NoneType" THEN stats.types
                   ELSE stats.types \cup {infer_type(value)} ]

\* for path, value in flattened.items(): ...
ObserveRecord(field_stats, flattened) ==
    [ p \in DOMAIN field_stats \cup DOMAIN flattened |->
        IF p \in DOMAIN flattened
        THEN ObserveValue(IF p \in DOMAIN field_stats THEN field_stats[p]
                          ELSE DefaultStats,
                          flattened[p])
        ELSE field_stats[p] ]

\* for record in records: ...  from the i-th record on.  record["data"] and
\* record["collection"] raise KeyError when the entry is missing.
RECURSIVE AggregateStats(_, _, _)
AggregateStats(records, i, field_stats) ==
    IF i > Len(records) THEN [raised |-> "none", field_stats |-> field_stats]
    ELSE LET record == records[i]
         IN  IF ~record.has_data \/ ~record.has_collection
             THEN [raised |-> "KeyError", field_stats |-> field_stats]
             ELSE AggregateStats(
                      records, i + 1,
                      ObserveRecord(field_stats,
                                    flatten(record.data,
                                            <<"$", ".">> \o record.collection)))

\* round(x, 2) of the fraction num/den, in hundredths: to the nearest
\* hundredth.  An exact tie arises only for a denominator that is a multiple
\* of 8 (.125, .375, ...), is then exactly representable and goes to the even
\* hundredth.
Round2(num, den) ==
    LET q == (100 * num) \div den
        r == (100 * num) % den
    IN  IF 2 * r < den THEN q
        ELSE IF 2 * r > den THEN q + 1
        ELSE IF q % 2 = 0 THEN q ELSE q + 1

\* A slip that caps the ratio at 1.0.
confidence_uncapped(count, total_records) ==
    IF count > total_records THEN 100 ELSE Round2(count, total_records)

\* round(min(0.99, count / total_records), 2), in hundredths.
confidence(count, total_records) ==
    IF 100 * count > 99 * total_records THEN 99
    ELSE Round2(count, total_records)

\* One entry of fields.
FieldEntry(path, stats, total_records) ==
    [ name            |-> LastSegment(path),
      path            |-> path,
      types           |-> IF SortedTags(stats.types) # <<>>
                          THEN SortedTags(stats.types) ELSE <<"string">>,
      nullable        |-> stats.nullable,
      confidence      |-> confidence(stats.count, total_records),
      suggested_index |-> EndsWith(path, <<"i", "d">>) ]

\* for path, stats in sorted(field_stats.items()): fields.append(...)
BuildFields(field_stats, total_records) ==
    LET paths == SortStrings(DOMAIN field_stats)
    IN  [ i \in 1..Len(paths) |->
            FieldEntry(paths[i], field_stats[paths[i]], total_records) ]

\* primary_candidates, appended in the same loop
PrimaryCandidates(fields) ==
    LET indexed == SelectSeq(fields, LAMBDA f : f.suggested_index)
    IN  [ i \in 1..Len(indexed) |-> indexed[i].path ]

\* A slip that looks for number before integer.
_map_type_number_first(types) ==
    LET has(t) == \E i \in 1..Len(types) : types[i] = t
    IN  IF has("number") THEN "DOUBLE PRECISION"
        ELSE IF has("integer") THEN "BIGINT"
        ELSE IF has("boolean") THEN "BOOLEAN"
        ELSE IF has("array") THEN "JSONB"
        ELSE IF has("object") THEN "JSONB"
        ELSE "TEXT"

\* _map_type
_map_type(types) ==
    LET has(t) == \E i \in 1..Len(types) : types[i] = t
    IN  IF has("integer") THEN "BIGINT"
        ELSE IF has("number") THEN "DOUBLE PRECISION"
        ELSE IF has("boolean") THEN "BOOLEAN"
        ELSE IF has("array") THEN "JSONB"
        ELSE IF has("object") THEN "JSONB"
        ELSE "TEXT"

\* str.replace(old, new): every non-overlapping occurrence, left to right.
RECURSIVE Replace(_, _, _)
Replace(s, old, new) ==
    IF Len(s) < Len(old) THEN s
    ELSE IF SubSeq(s, 1, Len(old)) = old
         THEN new \o Replace(SubSeq(s, Len(old) + 1, Len(s)), old, new)
         ELSE <<Head(s)>> \o Replace(Tail(s), old, new)

\* str.lower()
Lower(s) ==
    [ i \in 1..Len(s) |->
        IF s[i] = "D" THEN "d" ELSE IF s[i] = "I" THEN "i" ELSE s[i] ]

\* A slip that leaves the case as it is.
_normalize_column_keep_case(path) ==
    Replace(Replace(Replace(Replace(path, <<"$", ".">>, <<>>),
                            <<"[">>, <<"_">>),
                    <<"]">>, <<>>),
            <<".">>, <<"_">>)

\* _normalize_column
_normalize_column(path) ==
    Lower(Replace(Replace(Replace(Replace(path, <<"$", ".">>, <<>>),
                                  <<"[">>, <<"_">>),
                          <<"]">>, <<>>),
                  <<".">>, <<"_">>))

\* _build_postgres_ddl: the table's source id and its column lines.
_build_postgres_ddl(schema) ==
    LET columns == [ i \in 1..Len(schema.fields) |->
                       [ column_name |-> _normalize_column(schema.fields[i].path),
                         pg_type     |-> _map_type(schema.fields[i].types),
                         not_null    |-> ~schema.fields[i].nullable ] ]
    IN  [ table   |-> schema.source_id \o <<"_", "r", "e", "c", "o", "r", "d", "s">>,
          columns |-> IF columns # <<>> THEN columns
                      ELSE << [ column_name |-> <<"p", "a", "y", "l", "o", "a", "d">>,
                                pg_type     |-> "JSONB",
                                not_null    |-> FALSE ] >> ]

\* The paths of a fields list, in order.
Paths(fields) == [ i \in 1..Len(fields) |-> fields[i].path ]

\* {field["path"]: field for field in fields}[path]; the paths of a built
\* schema are distinct.
FieldAt(fields, path) ==
    fields[CHOOSE i \in 1..Len(fields) : fields[i].path = path]

HasPath(fields, path) == \E i \in 1..Len(fields) : fields[i].path = path

SeqToSet(s) == { s[i] : i \in 1..Len(s) }

\* One part of the notes string, "<label>: <comma-joined paths>"; the notes
\* are the parts joined by "; ", so the string is empty iff there is no part.
Note(label, paths) == [label |-> label, paths |-> paths]

InitialNotes == << Note("Initial schema.", <<>>) >>

\* A slip that compares the types alone.
DiffPresent_types_only(previous, current) ==
    LET prev_fields == previous.fields
        curr_fields == current.fields
        added   == SelectSeq(Paths(curr_fields),
                             LAMBDA path : ~HasPath(prev_fields, path))
        removed == SelectSeq(Paths(prev_fields),
                             LAMBDA path : ~HasPath(curr_fields, path))
        changed == SelectSeq(Paths(curr_fields),
                     LAMBDA path :
                        /\ HasPath(prev_fields, path)
                        /\ LET field == FieldAt(curr_fields, path)
                               prev_field == FieldAt(prev_fields, path)
                           IN  SeqToSet(field.types) # SeqToSet(prev_field.types))
        notes_parts ==
            (IF added # <<>> THEN << Note("Added fields", added) >> ELSE <<>>)
            \o (IF removed # <<>> THEN << Note("Removed fields", removed) >> ELSE <<>>)
            \o (IF changed # <<>> THEN << Note("Type/nullable changes", changed) >>
                ELSE <<>>)
    IN  [ keys    |-> {"added", "removed", "changed", "notes"},
          added   |-> added,
          removed |-> removed,
          changed |-> changed,
          notes   |-> notes_parts ]

\* _diff on a previous schema that is present.
DiffPresent(previous, current) ==
    LET prev_fields == previous.fields
        curr_fields == current.fields
        added   == SelectSeq(Paths(curr_fields),
                             LAMBDA path : ~HasPath(prev_fields, path))
        removed == SelectSeq(Paths(prev_fields),
                             LAMBDA path : ~HasPath(curr_fields, path))
        changed == SelectSeq(Paths(curr_fields),
                     LAMBDA path :
                        /\ HasPath(prev_fields, path)
                        /\ LET field == FieldAt(curr_fields, path)
                               prev_field == FieldAt(prev_fields, path)
                           IN  \/ SeqToSet(field.types) # SeqToSet(prev_field.types)
                               \/ field.nullable # prev_field.nullable)
        notes_parts ==
            (IF added # <<>> THEN << Note("Added fields", added) >> ELSE <<>>)
            \o (IF removed # <<>> THEN << Note("Removed fields", removed) >> ELSE <<>>)
            \o (IF changed # <<>> THEN << Note("Type/nullable changes", changed) >>
                ELSE <<>>)
    IN  [ keys    |-> {"added", "removed", "changed", "notes"},
          added   |-> added,
          removed |-> removed,
          changed |-> changed,
          notes   |-> notes_parts ]

\* A slip that gives the initial report the keys of every other report.
DiffInitial_uniform(current) ==
    [ keys    |-> {"added", "removed", "changed", "notes"},
      added   |-> Paths(current.fields),
      removed |-> <<>>,
      changed |-> <<>>,
      notes   |-> InitialNotes ]

\* _diff on a previous schema that is falsy.
DiffInitial(current) ==
    [ keys    |-> {"added", "notes"},
      added   |-> Paths(current.fields),
      removed |-> <<>>,
      changed |-> <<>>,
      notes   |-> InitialNotes ]

\* A slip that also takes a schema without fields for an absent one.
Falsy_no_fields(previous) ==
    \/ previous.cls = "NoneType"
    \/ previous.fields = <<>>

\* not previous: None, or a dict without entries (a schema document always
\* has entries).
Falsy(previous) == previous.cls = "NoneType"

_diff(previous, current) ==
    IF Falsy(previous) THEN DiffInitial(current)
    ELSE DiffPresent(previous, current)

\* build: the schema document and the diff, or the exception raised.
build(source_id, version, records, previous_schema) ==
    LET agg == AggregateStats(records, 1, EmptyStats)
    IN  IF agg.raised # "none"
        THEN [raised |-> agg.raised, schema |-> NoneDoc, diff |-> NoneDoc]
        ELSE
          LET total_records == IF Len(records) > 1 THEN Len(records) ELSE 1
              fields == BuildFields(agg.field_stats, total_records)
              schema == [ cls            |-> "dict",
                          schema_id      |-> source_id \o <<"_", "v">> \o IntToStr(version),
                          source_id      |-> source_id,
                          version        |-> version,
                          compatible_dbs |-> compatible_dbs,
                          fields         |-> fields,
                          primary_key_candidates |-> PrimaryCandidates(fields) ]
              with_ddl == [ f \in DOMAIN schema \cup {"ddl"} |->
                              IF f = "ddl" THEN _build_postgres_ddl(schema)
                              ELSE schema[f] ]
              diff == _diff(previous_schema, with_ddl)
              final == [ f \in DOMAIN with_ddl \cup {"migration_notes"} |->
                           IF f = "migration_notes" THEN diff.notes ELSE with_ddl[f] ]
          IN  [raised |-> "none", schema |-> final, diff |-> diff]

(***************************************************************************)
(* Records and the collections the parser files them under.                *)
(***************************************************************************)
json_objects == << "j", "s", "o", "n", "_", "o", "b", "j", "e", "c", "t", "s" >>
yaml_blocks  == << "y", "a", "m", "l", "_", "b", "l", "o", "c", "k", "s" >>
csv_blocks   == << "c", "s", "v", "_", "b", "l", "o", "c", "k", "s" >>
key_values   == << "k", "e", "y", "_", "v", "a", "l", "u", "e", "s" >>
text_blocks  == << "t", "e", "x", "t", "_", "b", "l", "o", "c", "k", "s" >>

\* A record as the parser emits it.
ParsedRecord(collection, data, start, end) ==
    [ collection |-> collection, data |-> data,
      has_collection |-> TRUE, has_data |-> TRUE,
      source_range |-> <<start, end>> ]

Record(collection, data) == ParsedRecord(collection, data, -1, -1)

(***************************************************************************)
(* parsers.py: ParserEngine.  The text is given by what the patterns and   *)
(* the HTML parser find in it:                                             *)
(*   json   the JSON_PATTERN matches: [valid, payload, start, end, len]    *)
(*   tables the <table> elements: [trs, len], trs the rows, a row its      *)
(*          cells [kind, text], kind "th" or "td"                          *)
(*   yaml   the YAML_PATTERN matches: [empty, valid, payload, start, end,  *)
(*          len]                                                           *)
(*   csv    the CSV_SECTION_PATTERN matches: [valid, payload, start, end,  *)
(*          header_len]                                                    *)
(*   kv     the KV_PATTERN matches: [key, value]                           *)
(*   lines  the lines left once the JSON and YAML matches are removed:     *)
(*          [blank, len], len the length of the stripped line              *)
(* A preview is kept by its length.                                        *)
(***************************************************************************)
Min(a, b) == IF a < b THEN a ELSE b

\* The preview cut, candidate[:80].
PreviewLimit == 80

ParsedFragment(fragment_type, start, end, preview_len, payload) ==
    [ fragment_type |-> fragment_type, start |-> start, end |-> end,
      preview_len |-> preview_len, payload |-> payload ]

\* What one extractor hands back: the exception that left it, the fragments
\* it returns, the records it appended and what it added to its counter.
Extracted(raised, fragments, records, counted) ==
    [ raised |-> raised, fragments |-> fragments, records |-> records,
      counted |-> counted ]

\* _parse_json_fragments: a candidate json.loads rejects is skipped.
_parse_json_fragments(text) ==
    LET parsed == SelectSeq(text.json, LAMBDA c : c.valid)
    IN  Extracted("none",
          [ i \in 1..Len(parsed) |->
              ParsedFragment("json", parsed[i].start, parsed[i].end,
                             Min(parsed[i].len, PreviewLimit), parsed[i].payload) ],
          [ i \in 1..Len(parsed) |->
              ParsedRecord(json_objects, parsed[i].payload,
                           parsed[i].start, parsed[i].end) ],
          Len(parsed))

RECURSIVE Flatten2(_)
Flatten2(seqs) ==
    IF seqs = <<>> THEN <<>> ELSE Head(seqs) \o Flatten2(Tail(seqs))

RECURSIVE MaxLenOf(_)
MaxLenOf(rows) ==
    IF rows = <<>> THEN 0
    ELSE LET rest == MaxLenOf(Tail(rows))
         IN  IF Len(Head(rows)) > rest THEN Len(Head(rows)) ELSE rest

\* pd.DataFrame(data, columns=columns).to_dict(orient="records"): every row
\* padded with None to the width; ValueError when the rows are wider or
\* narrower than the columns passed.
DataFrameRecords(data, columns) ==
    IF data # <<>> /\ MaxLenOf(data) # Len(columns)
    THEN [raised |-> "ValueError", rows |-> <<>>]
    ELSE [raised |-> "none",
          rows |-> [ r \in 1..Len(data) |->
                       PyDict(columns,
                              [ c \in 1..Len(columns) |->
                                  IF c <= Len(data[r]) THEN PyStr ELSE PyNone ]) ]]

\* pd.DataFrame(rows): the columns are the positions 0..width-1.
PositionalColumns(rows) == [ c \in 1..MaxLenOf(rows) |-> IntToStr(c - 1) ]

\* _table_to_dataframe, then df.to_dict(orient="records")
_table_to_dataframe(headers, rows) ==
    IF headers # <<>> /\ Len(headers) = Len(rows[1])
    THEN DataFrameRecords(Tail(rows), headers)
    ELSE DataFrameRecords(rows, PositionalColumns(rows))

html_table_ == << "h", "t", "m", "l", "_", "t", "a", "b", "l", "e", "_" >>

\* for idx, table in enumerate(tables): ...  from the i-th table on.  The
\* DataFrame constructor's ValueError is not caught.
RECURSIVE HtmlTablesFrom(_, _)
HtmlTablesFrom(tables, i) ==
    IF i > Len(tables) THEN Extracted("none", <<>>, <<>>, 0)
    ELSE
      LET table   == tables[i]
          cells   == Flatten2(table.trs)
          ths     == SelectSeq(cells, LAMBDA c : c.kind = "th")
          headers == [ k \in 1..Len(ths) |-> ths[k].text ]
          rows    == SelectSeq(table.trs, LAMBDA tr : tr # <<>>)
      IN  IF rows = <<>> THEN HtmlTablesFrom(tables, i + 1)
          ELSE
            LET df == _table_to_dataframe(headers, rows)
            IN  IF df.raised # "none"
                THEN Extracted(df.raised, <<>>, <<>>, 0)
                ELSE
                  LET rest == HtmlTablesFrom(tables, i + 1)
                      payload == PyList(df.rows)
                  IN  Extracted(rest.raised,
                        << ParsedFragment("html_table", -1, -1,
                                          Min(table.len, PreviewLimit), payload) >>
                          \o rest.fragments,
                        << ParsedRecord(html_table_ \o IntToStr(i - 1), payload, -1, -1) >>
                          \o rest.records,
                        1 + rest.counted)

_parse_html_fragments(text) == HtmlTablesFrom(text.tables, 1)

\* _parse_yaml_blocks: an empty block and one yaml.safe_load rejects are
\* skipped.
_parse_yaml_blocks(text) ==
    LET parsed == SelectSeq(text.yaml, LAMBDA c : ~c.empty /\ c.valid)
    IN  Extracted("none",
          [ i \in 1..Len(parsed) |->
              ParsedFragment("yaml", parsed[i].start, parsed[i].end,
                             Min(parsed[i].len, PreviewLimit), parsed[i].payload) ],
          [ i \in 1..Len(parsed) |->
              ParsedRecord(yaml_blocks, parsed[i].payload,
                           parsed[i].start, parsed[i].end) ],
          Len(parsed))

\* _parse_csv_blocks: a span seen before and a block pd.read_csv rejects are
\* skipped.
_parse_csv_blocks(text) ==
    LET first(i) == \A j \in 1..(i - 1) :
                       <<text.csv[j].start, text.csv[j].end>>
                         # <<text.csv[i].start, text.csv[i].end>>
        kept   == { i \in 1..Len(text.csv) : first(i) /\ text.csv[i].valid }
        parsed == SelectSeq([ i \in 1..Len(text.csv) |->
                                [c |-> text.csv[i], keep |-> i \in kept] ],
                            LAMBDA e : e.keep)
    IN  Extracted("none",
          [ i \in 1..Len(parsed) |->
              ParsedFragment("csv", parsed[i].c.start, parsed[i].c.end,
                             Min(parsed[i].c.header_len, PreviewLimit),
                             parsed[i].c.payload) ],
          [ i \in 1..Len(parsed) |->
              ParsedRecord(csv_blocks, parsed[i].c.payload,
                           parsed[i].c.start, parsed[i].c.end) ],
          Len(parsed))

\* str.strip() for blanks
RECURSIVE Strip(_)
Strip(s) ==
    IF s = <<>> THEN s
    ELSE IF Head(s) = " " THEN Strip(Tail(s))
    ELSE IF s[Len(s)] = " " THEN Strip(SubSeq(s, 1, Len(s) - 1))
    ELSE s

\* match.group("key").strip().lower().replace(" ", "_")
NormalizeKey(key) == Replace(Lower(Strip(key)), <<" ">>, <<"_">>)

\* The keys of {pair["key"]: pair["value"] for pair in kv_pairs}, each at the
\* place of its first sighting.
RECURSIVE DistinctKeys(_, _)
DistinctKeys(keys, seen) ==
    IF keys = <<>> THEN <<>>
    ELSE IF Head(keys) \in seen THEN DistinctKeys(Tail(keys), seen)
    ELSE <<Head(keys)>> \o DistinctKeys(Tail(keys), seen \cup {Head(keys)})

\* A slip that keeps the value a key had first.
LastValue_first(kv_pairs, key) ==
    kv_pairs[CHOOSE i \in 1..Len(kv_pairs) :
                /\ kv_pairs[i].key = key
                /\ \A j \in 1..(i - 1) : kv_pairs[j].key # key].value

\* {pair["key"]: pair["value"] for pair in kv_pairs}[key]: a later pair
\* overwrites an earlier one with the same key.
LastValue(kv_pairs, key) ==
    kv_pairs[CHOOSE i \in 1..Len(kv_pairs) :
                /\ kv_pairs[i].key = key
                /\ \A j \in (i + 1)..Len(kv_pairs) : kv_pairs[j].key # key].value

\* _parse_key_values: every match goes into one fragment and one record.
\* The preview is f"{key}={value}" of the first pair, not cut.
_parse_key_values(text) ==
    LET kv_pairs == [ i \in 1..Len(text.kv) |->
                        [ key   |-> NormalizeKey(text.kv[i].key),
                          value |-> Strip(text.kv[i].value) ] ]
        keys == DistinctKeys([ i \in 1..Len(kv_pairs) |-> kv_pairs[i].key ], {})
    IN  IF kv_pairs = <<>> THEN Extracted("none", <<>>, <<>>, 0)
        ELSE Extracted("none",
               << ParsedFragment("key_value_pairs", -1, -1,
                    Len(kv_pairs[1].key) + 1 + Len(kv_pairs[1].value),
                    PyList([ i \in 1..Len(kv_pairs) |->
                               PyDict(<< <<"k", "e", "y">>,
                                         <<"v", "a", "l", "u", "e">> >>,
                                      << PyStrOf(kv_pairs[i].key),
                                         PyStrOf(kv_pairs[i].value) >>) ])) >>,
               << ParsedRecord(key_values,
                               PyDict(keys,
                                      [ i \in 1..Len(keys) |->
                                          PyStrOf(LastValue(kv_pairs, keys[i])) ]),
                               -1, -1) >>,
               Len(kv_pairs))

\* _parse_text_blocks: one fragment and one record per non-blank line.
_parse_text_blocks(text) ==
    LET blocks == SelectSeq(text.lines, LAMBDA line : ~line.blank)
    IN  Extracted("none",
          [ i \in 1..Len(blocks) |->
              ParsedFragment("text", -1, -1, Min(blocks[i].len, PreviewLimit),
                             PyDict(<< <<"t", "e", "x", "t">> >>, <<PyStr>>)) ],
          [ i \in 1..Len(blocks) |->
              ParsedRecord(text_blocks,
                           PyDict(<< <<"t", "e", "x", "t">>,
                                     <<"s", "e", "q", "u", "e", "n", "c", "e">> >>,
                                  <<PyStr, PyInt>>),
                           -1, -1) ],
          Len(blocks))

\* The extractors in the order parse calls them, and the counter of each.
Stages == << "json", "html", "yaml", "csv", "key_values", "text" >>

\* A slip that lets the YAML and the CSV extractor bump each other's counter.
CounterOf_swapped(stage) ==
    CASE stage = "json"       -> "json_fragments"
      [] stage = "html"       -> "html_tables"
      [] stage = "yaml"       -> "csv_blocks"
      [] stage = "csv"        -> "yaml_blocks"
      [] stage = "key_values" -> "kv_pairs"
      [] stage = "text"       -> "text_blocks"

CounterOf(stage) ==
    CASE stage = "json"       -> "json_fragments"
      [] stage = "html"       -> "html_tables"
      [] stage = "yaml"       -> "yaml_blocks"
      [] stage = "csv"        -> "csv_blocks"
      [] stage = "key_values" -> "kv_pairs"
      [] stage = "text"       -> "text_blocks"

Extract(stage, text) ==
    CASE stage = "json"       -> _parse_json_fragments(text)
      [] stage = "html"       -> _parse_html_fragments(text)
      [] stage = "yaml"       -> _parse_yaml_blocks(text)
      [] stage = "csv"        -> _parse_csv_blocks(text)
      [] stage = "key_values" -> _parse_key_values(text)
      [] stage = "text"       -> _parse_text_blocks(text)

EmptySummary ==
    [ c \in {"json_fragments", "html_tables", "kv_pairs", "csv_blocks",
             "yaml_blocks", "text_blocks"} |-> 0 ]

\* parse from the k-th extractor on, given what the earlier ones produced.
RECURSIVE ParseFrom(_, _, _)
ParseFrom(text, k, sofar) ==
    IF k > Len(Stages) THEN sofar
    ELSE LET got == Extract(Stages[k], text)
         IN  IF got.raised # "none"
             THEN [ raised |-> got.raised, fragments |-> <<>>,
                    summary |-> EmptySummary, records |-> <<>> ]
             ELSE ParseFrom(text, k + 1,
                    [ raised    |-> "none",
                      fragments |-> sofar.fragments \o got.fragments,
                      summary   |-> [ sofar.summary EXCEPT
                                        ![CounterOf(Stages[k])] = @ + got.counted ],
                      records   |-> sofar.records \o got.records ])

\* parse: (fragments, summary, records), or the exception that left it.
parse(text) ==
    ParseFrom(text, 1, [ raised |-> "none", fragments |-> <<>>,
                         summary |-> EmptySummary, records |-> <<>> ])

(***************************************************************************)
(* storage.py: MongoStorage.  The schemas collection has a unique index on *)
(* (source_id, version), so it is a mapping from that pair to a document.  *)
(* Timestamps and the _id Mongo adds are left out.                         *)
(***************************************************************************)
EmptyStore == [ k \in {} |-> NoneDoc ]

\* latest_version
latest_version(stored, source_id) ==
    LET versions == { k[2] : k \in { q \in DOMAIN stored : q[1] = source_id } }
    IN  IF versions = {} THEN 0
        ELSE CHOOSE v \in versions : \A w \in versions : w <= v

\* get_schema with a version given
get_schema(stored, source_id, version) ==
    IF <<source_id, version>> \in DOMAIN stored
    THEN stored[<<source_id, version>>]
    ELSE NoneDoc

\* A slip that inserts only: a key that is there keeps its value.
Upsert_insert_only(mapping, key, value) ==
    [ k \in DOMAIN mapping \cup {key} |->
        IF k \in DOMAIN mapping THEN mapping[k] ELSE value ]

\* A mapping with key set to value, the key added when it is new.
Upsert(mapping, key, value) ==
    [ k \in DOMAIN mapping \cup {key} |-> IF k = key THEN value ELSE mapping[k] ]

\* save_schema: replace_one(..., upsert=True) with the schema and its diff.
save_schema(stored, schema, diff) ==
    LET payload == [ f \in DOMAIN schema \cup {"diff"} |->
                       IF f = "diff" THEN diff ELSE schema[f] ]
    IN  Upsert(stored, <<schema.source_id, schema.version>>, payload)

\* _persist_local_schema: write_text replaces the file.
_persist_local_schema(files, schema) ==
    Upsert(files, <<schema.source_id, schema.version>>, schema)

\* A slip that replaces the documents the pair had.
save_records_replace(collection, source_id, version, recs) ==
    SelectSeq(collection,
              LAMBDA doc : <<doc.source_id, doc.version>> # <<source_id, version>>)
    \o [ i \in 1..Len(recs) |->
            [ source_id    |-> source_id,
              version      |-> version,
              collection   |-> recs[i].collection,
              data         |-> recs[i].data,
              source_range |-> recs[i].source_range ] ]

\* save_records: insert_many of one document per record; nothing at all for
\* an empty list.
save_records(collection, source_id, version, recs) ==
    collection \o
        [ i \in 1..Len(recs) |->
            [ source_id    |-> source_id,
              version      |-> version,
              collection   |-> recs[i].collection,
              data         |-> recs[i].data,
              source_range |-> recs[i].source_range ] ]

\* _persist_local_records: write_text replaces the file; not reached for an
\* empty list.
_persist_local_records(files, source_id, version, recs) ==
    IF recs = <<>> THEN files
    ELSE Upsert(files, <<source_id, version>>, recs)

(***************************************************************************)
(* Inputs of the build calls.                                              *)
(***************************************************************************)

key_a  == << "a" >>
key_id == << "i", "d" >>
key_Id == << "I", "d" >>

SourceIds == { << "s", "1" >>, << "s", "2" >> }

\* Records whose shape is broken: an entry is missing.
RecordWithoutData ==
    [ collection |-> json_objects, data |-> PyNone,
      has_collection |-> TRUE, has_data |-> FALSE,
      source_range |-> <<-1, -1>> ]

RecordWithoutCollection ==
    [ collection |-> <<>>, data |-> PyDict(<<key_a>>, <<PyInt>>),
      has_collection |-> FALSE, has_data |-> TRUE,
      source_range |-> <<-1, -1>> ]

WellFormedRecords ==
    { Record(json_objects, PyDict(<<key_a>>, <<v>>)) : v \in {PyNone, PyBool, PyInt} }
    \cup
    { Record(json_objects, PyDict(<<key_a, key_id>>, <<PyStr, PyInt>>)),
      Record(json_objects, PyDict(<<key_id, key_a, key_Id>>, <<PyNone, PyFloat, PyBool>>)),
      Record(json_objects, PyDict(<<key_a>>, <<PyDict(<<key_Id>>, <<PyList(<<>>)>>)>>)),
      Record(json_objects, PyDict(<<>>, <<>>)),
      Record(json_objects, PyDict(<<key_a>>, <<PyList(<<PyNone, PyStr>>)>>)),
      Record(yaml_blocks, PyDate),
      Record(yaml_blocks, PyNone),
      Record(yaml_blocks, PyDict(<<key_id>>, <<PyBool>>)) }

RecordSet == WellFormedRecords \cup {RecordWithoutData, RecordWithoutCollection}

\* Lists of at most n elements of S.
SeqsUpTo(S, n) == UNION { [1..k -> S] : k \in 0..n }

\* A schema stored by an earlier upload.
PreviousDoc ==
    build(<< "s", "1" >>, 1,
          << Record(json_objects, PyDict(<<key_a, key_id>>, <<PyStr, PyInt>>)),
             Record(yaml_blocks, PyNone) >>,
          NoneDoc).schema

NotCalled == [raised |-> "not called", schema |-> NoneDoc, diff |-> NoneDoc]

(***************************************************************************)
(* Inputs of the parse calls.                                              *)
(***************************************************************************)
Text(json, tables, yaml, csv, kv, lines) ==
    [ json |-> json, tables |-> tables, yaml |-> yaml, csv |-> csv,
      kv |-> kv, lines |-> lines ]

EmptyText == Text(<<>>, <<>>, <<>>, <<>>, <<>>, <<>>)

JsonCandidates ==
    { [ valid |-> TRUE, payload |-> PyDict(<<key_a>>, <<PyInt>>),
        start |-> 0, end |-> 8, len |-> 8 ],
      [ valid |-> FALSE, payload |-> PyNone,
        start |-> 10, end |-> 110, len |-> 100 ] }

Th(text) == [kind |-> "th", text |-> text]
Td == [kind |-> "td", text |-> <<"x">>]

HeaderRow == << Th(key_a), Th(key_id) >>

Tables ==
    { [ trs |-> << HeaderRow, <<Td, Td>> >>, len |-> 90 ],      \* regular
      [ trs |-> << HeaderRow, <<Td, Td, Td>> >>, len |-> 90 ],  \* a wider row
      [ trs |-> << HeaderRow, <<Td>> >>, len |-> 60 ],          \* a narrower row
      [ trs |-> << HeaderRow >>, len |-> 50 ],                  \* header only
      [ trs |-> << <<Td, Td>>, <<Td>> >>, len |-> 50 ],         \* no header
      [ trs |-> << <<>> >>, len |-> 24 ] }                      \* no cells

YamlCandidates ==
    { [ empty |-> TRUE, valid |-> TRUE, payload |-> PyNone,
        start |-> 0, end |-> 8, len |-> 0 ],
      [ empty |-> FALSE, valid |-> FALSE, payload |-> PyNone,
        start |-> 0, end |-> 20, len |-> 12 ],
      [ empty |-> FALSE, valid |-> TRUE, payload |-> PyDict(<<key_id>>, <<PyNone>>),
        start |-> 0, end |-> 100, len |-> 92 ] }

CsvCandidates ==
    { [ valid |-> TRUE,
        payload |-> PyList(<< PyDict(<<key_a, key_id>>, <<PyStr, PyInt>>) >>),
        start |-> 0, end |-> 12, header_len |-> 4 ],
      [ valid |-> FALSE, payload |-> PyNone,
        start |-> 20, end |-> 40, header_len |-> 9 ] }

\* A value of n characters.
ValueOfLen(n) == [ i \in 1..n |-> "x" ]

KvMatches ==
    { [ key |-> << "I", "d" >>, value |-> ValueOfLen(3) ],
      [ key |-> << "a", " ", "b" >>, value |-> ValueOfLen(90) ],
      [ key |-> << " ", "i", "d" >>, value |-> << "y", " " >> ] }

Lines ==
    { [ blank |-> FALSE, len |-> 5 ],
      [ blank |-> FALSE, len |-> 120 ],
      [ blank |-> TRUE, len |-> 0 ] }

\* A text with one match of every pattern.
PlainText ==
    Text(<< [ valid |-> TRUE, payload |-> PyDict(<<key_a>>, <<PyInt>>),
              start |-> 0, end |-> 8, len |-> 8 ] >>,
         << [ trs |-> << HeaderRow, <<Td, Td>> >>, len |-> 90 ] >>,
         << [ empty |-> FALSE, valid |-> TRUE,
              payload |-> PyDict(<<key_id>>, <<PyNone>>),
              start |-> 0, end |-> 100, len |-> 92 ] >>,
         << [ valid |-> TRUE,
              payload |-> PyList(<< PyDict(<<key_a, key_id>>, <<PyStr, PyInt>>) >>),
              start |-> 0, end |-> 12, header_len |-> 4 ] >>,
         << [ key |-> << "I", "d" >>, value |-> ValueOfLen(3) ] >>,
         << [ blank |-> FALSE, len |-> 5 ] >>)

\* The texts: PlainText with the matches of two patterns varied.
Texts ==
    { [ PlainText EXCEPT !.json = j, !.tables = t ] :
        j \in SeqsUpTo(JsonCandidates, MaxCandidates),
        t \in SeqsUpTo(Tables, MaxCandidates) }
    \cup
    { [ PlainText EXCEPT !.yaml = y, !.csv = c ] :
        y \in SeqsUpTo(YamlCandidates, MaxCandidates),
        c \in SeqsUpTo(CsvCandidates, MaxCandidates) }
    \cup
    { [ PlainText EXCEPT !.kv = k, !.lines = l ] :
        k \in SeqsUpTo(KvMatches, MaxCandidates),
        l \in SeqsUpTo(Lines, MaxCandidates) }

(***************************************************************************)
(* Inputs of the process calls.                                            *)
(***************************************************************************)
\* The version argument: None, or an integer.
NoVersion == [given |-> FALSE, value |-> 0]
Version(v) == [given |-> TRUE, value |-> v]

VersionArgs == { NoVersion, Version(1), Version(3) }

\* The uploads: nothing recognisable, one JSON object, one key-value line,
\* and a table with a row wider than its header.
UploadTexts ==
    { EmptyText,
      [ EmptyText EXCEPT !.json = << [ valid |-> TRUE,
                                       payload |-> PyDict(<<key_a>>, <<PyInt>>),
                                       start |-> 0, end |-> 8, len |-> 8 ] >> ],
      [ EmptyText EXCEPT !.kv = << [ key |-> << "I", "d" >>, value |-> ValueOfLen(3) ] >>,
                         !.lines = << [ blank |-> FALSE, len |-> 7 ] >> ],
      [ EmptyText EXCEPT !.tables = << [ trs |-> << HeaderRow, <<Td, Td, Td>> >>,
                                         len |-> 90 ] >> ] }

\* The locals of a call that has not been made.  had_lower, given,
\* resolved_at and saved_at are not in the code: they note what the call met,
\* whether its version was passed in, and when it read and wrote the schemas.
IdleCall ==
    [ pc |-> "idle", raised |-> "none", source_id |-> <<>>, version |-> 0,
      records |-> <<>>, schema |-> NoneDoc, diff |-> NoneDoc,
      had_lower |-> FALSE, given |-> FALSE, resolved_at |-> 0, saved_at |-> 0 ]

\* Each specification leaves the variables of the others at rest.
BuildAtRest ==
    /\ b_records = <<>>
    /\ b_previous = NoneDoc
    /\ b_result = NotCalled

DiffAtRest ==
    /\ d_previous = NoneDoc
    /\ d_current = NoneDoc
    /\ d_result = NoneDoc

ParseAtRest ==
    /\ p_text = EmptyText
    /\ p_stage = "returned"
    /\ p_fragments = <<>>
    /\ p_summary = EmptySummary
    /\ p_records = <<>>
    /\ p_raised = "none"

StoreAtRest ==
    /\ schemas = EmptyStore
    /\ db_records = <<>>
    /\ local_schemas = EmptyStore
    /\ local_records = EmptyStore
    /\ calls = [ c \in 1..MaxCalls |-> IdleCall ]

DdlAtRest ==
    /\ ddl_fields = <<>>
    /\ ddl_result = [ table |-> <<>>, columns |-> <<>> ]

(***************************************************************************)
(* SchemaGenerator.build applied to bounded inputs.                        *)
(***************************************************************************)
InitBuild ==
    /\ b_records \in SeqsUpTo(RecordSet, MaxRecords)
    /\ b_previous \in {NoneDoc, PreviousDoc}
    /\ b_result = NotCalled
    /\ DiffAtRest
    /\ ParseAtRest
    /\ StoreAtRest
    /\ DdlAtRest

Build ==
    /\ b_result = NotCalled
    /\ b_result' = build(<< "s", "1" >>, 2, b_records, b_previous)
    /\ UNCHANGED <<b_records, b_previous, diff_vars, parse_vars, store_vars, ddl_vars>>

NextBuild == Build

SpecBuild == InitBuild /\ [][NextBuild]_vars

(***************************************************************************)
(* SchemaGenerator._diff applied to pairs of built schemas.                *)
(***************************************************************************)
DiffRecordSet ==
    { Record(json_objects, PyDict(<<key_a>>, <<PyNone>>)),
      Record(json_objects, PyDict(<<key_a>>, <<PyInt>>)),
      Record(json_objects, PyDict(<<key_a, key_id>>, <<PyStr, PyInt>>)),
      Record(json_objects, PyDict(<<>>, <<>>)),
      Record(yaml_blocks, PyNone) }

DiffDocs ==
    { build(<< "s", "1" >>, 1, rs, NoneDoc).schema :
        rs \in SeqsUpTo(DiffRecordSet, MaxDiffRecords) }

InitDiff ==
    /\ d_previous \in {NoneDoc} \cup DiffDocs
    /\ d_current \in DiffDocs
    /\ d_result = NoneDoc
    /\ BuildAtRest
    /\ ParseAtRest
    /\ StoreAtRest
    /\ DdlAtRest

Diff ==
    /\ d_result = NoneDoc
    /\ d_result' = _diff(d_previous, d_current)
    /\ UNCHANGED <<d_previous, d_current, build_vars, parse_vars, store_vars, ddl_vars>>

NextDiff == Diff

SpecDiff == InitDiff /\ [][NextDiff]_vars

(***************************************************************************)
(* Properties of _diff (checked under SpecDiff).                           *)
(***************************************************************************)
Diffed == d_result # NoneDoc

PathSet(doc) == { doc.fields[i].path : i \in 1..Len(doc.fields) }

\* The field of doc at a path it holds.
FieldOf(doc, path) ==
    CHOOSE f \in SeqToSet(doc.fields) : f.path = path

\* A list holds no element twice.
NoRepeats(s) == Cardinality(SeqToSet(s)) = Len(s)

\* C1: for a present previous schema P and a current schema C, added is
\* exactly the paths of C that are not paths of P, removed exactly the paths
\* of P that are not paths of C, and changed exactly the paths of both whose
\* set of types or whose nullable flag differs.
C1_DiffPresent ==
    (Diffed /\ d_previous # NoneDoc) =>
        /\ NoRepeats(d_result.added)
        /\ NoRepeats(d_result.removed)
        /\ NoRepeats(d_result.changed)
        /\ SeqToSet(d_result.added) = PathSet(d_current) \ PathSet(d_previous)
        /\ SeqToSet(d_result.removed) = PathSet(d_previous) \ PathSet(d_current)
        /\ SeqToSet(d_result.changed) =
             { p \in PathSet(d_current) \cap PathSet(d_previous) :
                 \/ SeqToSet(FieldOf(d_current, p).types)
                      # SeqToSet(FieldOf(d_previous, p).types)
                 \/ FieldOf(d_current, p).nullable
                      # FieldOf(d_previous, p).nullable }

\* A diff against a present schema with a field added, one removed and one
\* changed.
C1_Witness ==
    /\ Diffed
    /\ d_previous # NoneDoc
    /\ d_result.added # <<>>
    /\ d_result.removed # <<>>
    /\ d_result.changed # <<>>

\* C2: with the previous schema absent, added lists every path of the
\* current schema in field order, notes is "Initial schema.", and the report
\* has no removed key and no changed key.
C2_DiffInitial ==
    (Diffed /\ d_previous = NoneDoc) =>
        /\ Len(d_result.added) = Len(d_current.fields)
        /\ \A i \in 1..Len(d_current.fields) :
              d_result.added[i] = d_current.fields[i].path
        /\ d_result.notes = InitialNotes
        /\ "removed" \notin d_result.keys
        /\ "changed" \notin d_result.keys

\* An initial diff of a schema with several fields.
C2_Witness ==
    /\ Diffed
    /\ d_previous = NoneDoc
    /\ Len(d_current.fields) >= 2
    /\ Len(d_result.added) >= 2

\* C3: diffing a schema document against itself gives empty added, removed
\* and changed lists and an empty notes string, also when the document has
\* no fields.
C3_DiffStable ==
    (Diffed /\ d_previous = d_current) =>
        /\ {"added", "removed", "changed", "notes"} \subseteq d_result.keys
        /\ d_result.added = <<>>
        /\ d_result.removed = <<>>
        /\ d_result.changed = <<>>
        /\ d_result.notes = <<>>

\* A schema without fields diffed against itself.
C3_Witness ==
    /\ Diffed
    /\ d_previous = d_current
    /\ d_current.fields = <<>>

(***************************************************************************)
(* Properties of build (checked under SpecBuild).                          *)
(***************************************************************************)
Called == b_result # NotCalled

Succeeded == Called /\ b_result.raised = "none"

\* What the r-th record maps each of its paths to.
FlatOf(r) ==
    flatten(b_records[r].data, <<"$", ".">> \o b_records[r].collection)

\* The non-null values the records hold at a path.
NonNullAt(path) ==
    { FlatOf(r)[path] :
        r \in { q \in 1..Len(b_records) :
                  /\ path \in DOMAIN FlatOf(q)
                  /\ FlatOf(q)[path].cls # "NoneType" } }

NullSeenAt(path) ==
    \E r \in 1..Len(b_records) :
        /\ path \in DOMAIN FlatOf(r)
        /\ FlatOf(r)[path].cls = "NoneType"

BuiltFields == SeqToSet(b_result.schema.fields)

Malformed(record) == ~record.has_data \/ ~record.has_collection

\* C7: given a record that lacks its data or collection entry, build fails
\* with an InvalidRecordShape error and produces no schema document.
C7_InvalidRecordShape ==
    (Called /\ \E r \in 1..Len(b_records) : Malformed(b_records[r])) =>
        /\ b_result.raised = "InvalidRecordShape"
        /\ b_result.schema = NoneDoc

\* C8: a field is nullable iff some record holds a null at its path,
\* whatever the order of the records.
C8_NullableSticky ==
    Succeeded =>
        \A f \in BuiltFields : f.nullable <=> NullSeenAt(f.path)

\* A path at which a null lies between two non-null sightings.
C8_Witness ==
    /\ Succeeded
    /\ \E f \in BuiltFields :
         \E r1, r2, r3 \in 1..Len(b_records) :
            /\ r1 < r2 /\ r2 < r3
            /\ f.path \in DOMAIN FlatOf(r1) /\ FlatOf(r1)[f.path].cls # "NoneType"
            /\ f.path \in DOMAIN FlatOf(r2) /\ FlatOf(r2)[f.path].cls = "NoneType"
            /\ f.path \in DOMAIN FlatOf(r3) /\ FlatOf(r3)[f.path].cls # "NoneType"
            /\ f.nullable

\* The tag the type lattice gives a terminal non-null value.
TagOf(value) ==
    CASE value.cls = "bool"  -> "boolean"
      [] value.cls = "int"   -> "integer"
      [] value.cls = "float" -> "number"
      [] OTHER               -> "string"

TagRank(tag) == CHOOSE i \in 1..Len(TagOrder) : TagOrder[i] = tag

StrictlySorted(types) ==
    \A i, j \in 1..Len(types) : i < j => TagRank(types[i]) < TagRank(types[j])

\* C9 as stated: types is exactly the sorted set of the tags of the non-null
\* values seen at the path (so it is empty where only nulls were seen).
C9_TypesExactlyObserved ==
    Succeeded =>
        \A f \in BuiltFields :
            /\ StrictlySorted(f.types)
            /\ SeqToSet(f.types) = { TagOf(v) : v \in NonNullAt(f.path) }

\* C9 as amended: types is the sorted set of the tags of the non-null values
\* seen at the path, a boolean tagged boolean and never integer; where only
\* nulls were seen, types is the single tag string.
C9_TypesObservedOrString ==
    Succeeded =>
        \A f \in BuiltFields :
            /\ StrictlySorted(f.types)
            /\ SeqToSet(f.types) =
                 IF NonNullAt(f.path) # {}
                 THEN { TagOf(v) : v \in NonNullAt(f.path) }
                 ELSE {"string"}

\* A schema with a path where only nulls were seen and a path where a
\* boolean and another type were seen.
C9_Witness ==
    /\ Succeeded
    /\ \E f \in BuiltFields :
         /\ NonNullAt(f.path) = {}
         /\ f.types = <<"string">>
    /\ \E f \in BuiltFields :
         /\ PyBool \in NonNullAt(f.path)
         /\ Len(f.types) >= 2

\* The number of records in which a path occurs.
Occurrences(path) ==
    Cardinality({ r \in 1..Len(b_records) : path \in DOMAIN FlatOf(r) })

Abs(x) == IF x < 0 THEN -x ELSE x

\* C10: confidence is min(0.99, count / max(1, n)) rounded to two decimals,
\* so it lies in [0, 0.99], and a path present in every record has 0.99.
C10_Confidence ==
    Succeeded =>
        \A f \in BuiltFields :
            LET n == IF Len(b_records) > 1 THEN Len(b_records) ELSE 1
                count == Occurrences(f.path)
                capped == IF 100 * count > 99 * n THEN 99 * n ELSE 100 * count
            IN  /\ 0 <= f.confidence /\ f.confidence <= 99
                /\ 2 * Abs(capped - f.confidence * n) <= n
                /\ (count = Len(b_records) => f.confidence = 99)

\* Three records, one path in all of them and one in two of them.
C10_Witness ==
    /\ Succeeded
    /\ Len(b_records) = 3
    /\ \E f \in BuiltFields : Occurrences(f.path) = 3 /\ f.confidence = 99
    /\ \E f \in BuiltFields : Occurrences(f.path) = 2 /\ f.confidence = 67
    /\ \E f \in BuiltFields : Occurrences(f.path) = 1 /\ f.confidence = 33

\* The path ends with the two characters "id".
EndsInId(path) ==
    /\ Len(path) >= 2
    /\ path[Len(path) - 1] = "i"
    /\ path[Len(path)] = "d"

\* C11: a field's suggested_index is true iff its path ends with the
\* literal "id", and primary_key_candidates is the list of the paths of the
\* fields whose suggested_index is true, in the order of fields.
C11_IndexAndCandidates ==
    Succeeded =>
        LET doc == b_result.schema
        IN  /\ \A f \in BuiltFields : f.suggested_index <=> EndsInId(f.path)
            /\ doc.primary_key_candidates =
                 SelectSeq(Paths(doc.fields),
                           LAMBDA p : FieldOf(doc, p).suggested_index)

\* A schema with two candidates between fields that are none, one of them
\* ending in "Id".
C11_Witness ==
    /\ Succeeded
    /\ Len(b_result.schema.primary_key_candidates) = 2
    /\ \E f \in BuiltFields : f.name = key_Id /\ ~f.suggested_index
    /\ \E i, j, k \in 1..Len(b_result.schema.fields) :
          /\ i < j /\ j < k
          /\ b_result.schema.fields[i].suggested_index
          /\ ~b_result.schema.fields[j].suggested_index
          /\ b_result.schema.fields[k].suggested_index

\* s comes before t in code point order, character by character.
LexLess(s, t) ==
    \E n \in 0..Len(t) - 1 :
        /\ n <= Len(s)
        /\ \A i \in 1..n : s[i] = t[i]
        /\ \/ n = Len(s)
           \/ Ord[s[n + 1]] < Ord[t[n + 1]]

\* The records in the opposite order.
Reversed(records) ==
    [ i \in 1..Len(records) |-> records[Len(records) + 1 - i] ]

\* C12: fields holds one Field for each distinct path flattened out of the
\* records and no other, in strictly increasing lexicographic order of path,
\* whatever the order of the records.
C12_FieldsSortedByPath ==
    Succeeded =>
        LET fields == b_result.schema.fields
        IN  /\ SeqToSet(Paths(fields)) =
                 UNION { DOMAIN FlatOf(r) : r \in 1..Len(b_records) }
            /\ \A i \in 1..Len(fields) - 1 :
                  LexLess(fields[i].path, fields[i + 1].path)
            /\ build(<< "s", "1" >>, 2, Reversed(b_records), b_previous).schema.fields
                 = fields

\* Records that bring their paths out of order, one path in two of them.
C12_Witness ==
    /\ Succeeded
    /\ Len(b_result.schema.fields) >= 3
    /\ \E r1, r2 \in 1..Len(b_records) :
          /\ r1 < r2
          /\ \E p1 \in DOMAIN FlatOf(r1), p2 \in DOMAIN FlatOf(r2) : LexLess(p2, p1)
          /\ DOMAIN FlatOf(r1) \cap DOMAIN FlatOf(r2) # {}

\* The paths at which flattening stops when it stops at every scalar, null
\* and empty container.
RECURSIVE TerminalPaths(_, _)
TerminalPaths(document, prefix) ==
    IF document.cls = "dict" /\ document.keys # <<>>
    THEN UNION { TerminalPaths(document.items[i], prefix \o <<".">> \o document.keys[i]) :
                   i \in 1..Len(document.keys) }
    ELSE IF document.cls = "list" /\ document.items # <<>>
    THEN UNION { TerminalPaths(document.items[i],
                               prefix \o <<"[">> \o IntToStr(i - 1) \o <<"]">>) :
                   i \in 1..Len(document.items) }
    ELSE {prefix}

\* C16: flatten maps every position of the data where a scalar, a null or
\* an empty container lies to that value, so each such position of each
\* record, the empty object and the empty list included, is the path of a
\* field of the schema.
C16_EmptyContainerIsTerminal ==
    Succeeded =>
        \A r \in 1..Len(b_records) :
            LET terminal == TerminalPaths(b_records[r].data,
                                          <<"$", ".">> \o b_records[r].collection)
            IN  /\ DOMAIN FlatOf(r) = terminal
                /\ \A path \in terminal : HasPath(b_result.schema.fields, path)

\* The columns of the DDL of the schema built.
BuiltColumns == b_result.schema.ddl.columns

\* A character of a path as it shows in a column name, an opening bracket
\* showing as open.
ColumnChar(c, open) ==
    CASE c = "["   -> open
      [] c = "]"   -> <<>>
      [] c = "."   -> <<"_">>
      [] c = "D"   -> <<"d">>
      [] c = "I"   -> <<"i">>
      [] OTHER     -> <<c>>

\* The column name of a path that starts with "$.": the rest of it character
\* by character.
RECURSIVE ColumnChars(_, _)
ColumnChars(s, open) ==
    IF s = <<>> THEN <<>>
    ELSE ColumnChar(Head(s), open) \o ColumnChars(Tail(s), open)

ColumnName(path, open) == ColumnChars(SubSeq(path, 3, Len(path)), open)

\* There is one column per field, named after the field's path with an
\* opening bracket showing as open.
ColumnsNamed(open) ==
    (Succeeded /\ b_result.schema.fields # <<>>) =>
        LET fields == b_result.schema.fields
        IN  /\ Len(BuiltColumns) = Len(fields)
            /\ \A i \in 1..Len(fields) :
                  BuiltColumns[i].column_name = ColumnName(fields[i].path, open)

\* C17 as stated: the column of a field is named by its path with the
\* leading "$." stripped, every "[" and "]" removed, every "." replaced by
\* "_", lower-cased; one column per field.
C17_ColumnNameBracketsRemoved == ColumnsNamed(<<>>)

\* C17 as amended: the same, but every "[" is replaced by "_" and only "]"
\* is removed.
C17_ColumnNameBracketUnderscore == ColumnsNamed(<<"_">>)

\* A schema with a field under a list index and a field with an upper-case
\* key.
C17_Witness ==
    /\ Succeeded
    /\ b_result.schema.fields # <<>>
    /\ \E i \in 1..Len(BuiltColumns) :
          /\ \E k \in 1..Len(b_result.schema.fields[i].path) :
                b_result.schema.fields[i].path[k] = "["
          /\ BuiltColumns[i].column_name
               = <<"j", "s", "o", "n", "_", "o", "b", "j", "e", "c", "t", "s",
                   "_", "a", "_", "0">>
    /\ \E i \in 1..Len(BuiltColumns) :
          /\ b_result.schema.fields[i].name = key_Id
          /\ BuiltColumns[i].column_name
               = <<"j", "s", "o", "n", "_", "o", "b", "j", "e", "c", "t", "s",
                   "_", "i", "d">>

(***************************************************************************)
(* SchemaGenerator._build_postgres_ddl applied to bounded field lists.     *)
(***************************************************************************)
\* The lists of type tags a field can carry: sorted, not empty, no "null".
TypeLists ==
    { SortedTags(S) :
        S \in { T \in SUBSET (SeqToSet(TagOrder) \ {"null"}) :
                  T # {} /\ Cardinality(T) <= 2 } }

\* The i-th field of a schema handed to _build_postgres_ddl.
DdlField(i, types, nullable) ==
    [ name            |-> key_a \o <<"[">> \o IntToStr(i - 1) \o <<"]">>,
      path            |-> <<"$", ".">> \o json_objects \o <<".">> \o key_a
                            \o <<"[">> \o IntToStr(i - 1) \o <<"]">>,
      types           |-> types,
      nullable        |-> nullable,
      confidence      |-> 99,
      suggested_index |-> FALSE ]

\* The field lists of at most n fields.
RECURSIVE DdlFieldLists(_)
DdlFieldLists(n) ==
    IF n = 0 THEN { <<>> }
    ELSE LET shorter == DdlFieldLists(n - 1)
         IN  shorter \cup
             { Append(fields, DdlField(n, types, nullable)) :
                 fields \in { s \in shorter : Len(s) = n - 1 },
                 types \in TypeLists, nullable \in BOOLEAN }

InitDdl ==
    /\ ddl_fields \in DdlFieldLists(MaxDdlFields)
    /\ ddl_result = [ table |-> <<>>, columns |-> <<>> ]
    /\ BuildAtRest
    /\ DiffAtRest
    /\ ParseAtRest
    /\ StoreAtRest

BuildPostgresDdl ==
    /\ ddl_result.columns = <<>>
    /\ ddl_result' = _build_postgres_ddl([ source_id |-> << "s", "1" >>,
                                           fields |-> ddl_fields ])
    /\ UNCHANGED <<ddl_fields, build_vars, diff_vars, parse_vars, store_vars>>

NextDdl == BuildPostgresDdl

SpecDdl == InitDdl /\ [][NextDdl]_vars

DdlBuilt == ddl_result.columns # <<>>

\* The tags that decide the column type, in the order they are looked for.
TypePriority ==
    << [tag |-> "integer", pg_type |-> "BIGINT"],
       [tag |-> "number",  pg_type |-> "DOUBLE PRECISION"],
       [tag |-> "boolean", pg_type |-> "BOOLEAN"],
       [tag |-> "array",   pg_type |-> "JSONB"],
       [tag |-> "object",  pg_type |-> "JSONB"] >>

\* The type of the first entry of TypePriority whose tag is among types, TEXT
\* when there is none.
FirstMatch(types) ==
    LET hits == { k \in 1..Len(TypePriority) : TypePriority[k].tag \in SeqToSet(types) }
    IN  IF hits = {} THEN "TEXT"
        ELSE TypePriority[CHOOSE k \in hits : \A h \in hits : k <= h].pg_type

\* C18: each column has the type of the first match among integer, number,
\* boolean, array or object, else TEXT; it carries NOT NULL iff the field is
\* not nullable; a schema without fields has the single column payload JSONB.
C18_ColumnTypes ==
    DdlBuilt =>
        IF ddl_fields = <<>>
        THEN ddl_result.columns =
               << [ column_name |-> <<"p", "a", "y", "l", "o", "a", "d">>,
                    pg_type |-> "JSONB", not_null |-> FALSE ] >>
        ELSE /\ Len(ddl_result.columns) = Len(ddl_fields)
             /\ \A i \in 1..Len(ddl_fields) :
                   /\ ddl_result.columns[i].pg_type = FirstMatch(ddl_fields[i].types)
                   /\ ddl_result.columns[i].not_null <=> ~ddl_fields[i].nullable

\* A nullable field with integer and number among its types next to a
\* field that is not nullable and has array as its strongest type.
C18_Witness ==
    /\ DdlBuilt
    /\ Len(ddl_fields) = 2
    /\ ddl_fields[1].types = <<"integer", "number">>
    /\ ddl_fields[1].nullable
    /\ ddl_result.columns[1].pg_type = "BIGINT"
    /\ ~ddl_result.columns[1].not_null
    /\ ddl_fields[2].types = <<"array", "string">>
    /\ ~ddl_fields[2].nullable
    /\ ddl_result.columns[2].pg_type = "JSONB"
    /\ ddl_result.columns[2].not_null

(***************************************************************************)
(* ParserEngine.parse, one extractor at a time.                            *)
(***************************************************************************)
InitParse ==
    /\ p_text \in Texts
    /\ p_stage = "json"
    /\ p_fragments = <<>>
    /\ p_summary = EmptySummary
    /\ p_records = <<>>
    /\ p_raised = "none"
    /\ BuildAtRest
    /\ DiffAtRest
    /\ StoreAtRest
    /\ DdlAtRest

\* fragments.extend(self._parse_...(text, summary, records))
RunExtractor(stage, next) ==
    /\ p_stage = stage
    /\ LET got == Extract(stage, p_text)
       IN  IF got.raised # "none"
           THEN /\ p_raised' = got.raised
                /\ p_stage' = "raised"
                /\ UNCHANGED <<p_fragments, p_summary, p_records>>
           ELSE /\ p_fragments' = p_fragments \o got.fragments
                /\ p_summary' = [ p_summary EXCEPT ![CounterOf(stage)] = @ + got.counted ]
                /\ p_records' = p_records \o got.records
                /\ p_stage' = next
                /\ UNCHANGED p_raised
    /\ UNCHANGED <<p_text, build_vars, diff_vars, store_vars, ddl_vars>>

ParseJsonFragments == RunExtractor("json", "html")
ParseHtmlFragments == RunExtractor("html", "yaml")
ParseYamlBlocks    == RunExtractor("yaml", "csv")
ParseCsvBlocks     == RunExtractor("csv", "key_values")
ParseKeyValues     == RunExtractor("key_values", "text")
ParseTextBlocks    == RunExtractor("text", "returned")

NextParse ==
    \/ ParseJsonFragments
    \/ ParseHtmlFragments
    \/ ParseYamlBlocks
    \/ ParseCsvBlocks
    \/ ParseKeyValues
    \/ ParseTextBlocks

SpecParse == InitParse /\ [][NextParse]_vars

\* C6: parse returns its triple without raising for every text; a malformed
\* candidate, an HTML table with rows of differing cell counts included, is
\* skipped and extraction goes on.
C6_ParseNeverRaises ==
    /\ p_raised = "none"
    /\ p_stage # "raised"

Returned == p_stage = "returned"

\* The fragments of one type among those parse has gathered.
FragmentsOf(fragment_type) ==
    SelectSeq(p_fragments, LAMBDA f : f.fragment_type = fragment_type)

\* The records parse has filed under one collection.
RecordsOf(collection) ==
    SelectSeq(p_records, LAMBDA r : r.collection = collection)

\* C13: when parse returns, json_fragments, html_tables, yaml_blocks,
\* csv_blocks and text_blocks each equal the number of returned fragments of
\* their type, and kv_pairs equals the number of key-value lines matched.
C13_SummaryCounters ==
    Returned =>
        /\ p_summary["json_fragments"] = Len(FragmentsOf("json"))
        /\ p_summary["html_tables"] = Len(FragmentsOf("html_table"))
        /\ p_summary["yaml_blocks"] = Len(FragmentsOf("yaml"))
        /\ p_summary["csv_blocks"] = Len(FragmentsOf("csv"))
        /\ p_summary["text_blocks"] = Len(FragmentsOf("text"))
        /\ p_summary["kv_pairs"] = Len(p_text.kv)

\* Two key-value lines with one key: kv_pairs exceeds the one fragment and
\* the one key of the merged record.
C13_Witness ==
    /\ Returned
    /\ p_summary["kv_pairs"] = 2
    /\ Len(FragmentsOf("key_value_pairs")) = 1
    /\ Len(RecordsOf(key_values)) = 1
    /\ Len(RecordsOf(key_values)[1].data.keys) = 1
    /\ p_summary["text_blocks"] = 2

\* C14: every fragment parse gathers, whatever its type, has a preview of
\* at most 80 characters.
C14_PreviewAtMost80 ==
    \A i \in 1..Len(p_fragments) : p_fragments[i].preview_len <= 80

KvDone == p_stage \in {"text", "returned"}

\* The (key, value) pairs of a dict of strings.
DataPairs(data) ==
    { <<data.keys[i], data.items[i].text>> : i \in 1..Len(data.keys) }

\* The mapping that takes each key, normalised by norm, to the trimmed value
\* of the last matching line with that key.
LastWins(norm(_)) ==
    { <<norm(p_text.kv[i].key), Strip(p_text.kv[i].value)>> :
        i \in { q \in 1..Len(p_text.kv) :
                  \A j \in (q + 1)..Len(p_text.kv) :
                      norm(p_text.kv[j].key) # norm(p_text.kv[q].key) } }

\* One fragment and one record iff a line matched, the record's data being
\* the last-wins mapping under norm.
OneKeyValueRecord(norm(_)) ==
    KvDone =>
        IF p_text.kv = <<>>
        THEN /\ FragmentsOf("key_value_pairs") = <<>>
             /\ RecordsOf(key_values) = <<>>
        ELSE /\ Len(FragmentsOf("key_value_pairs")) = 1
             /\ Len(RecordsOf(key_values)) = 1
             /\ LET data == RecordsOf(key_values)[1].data
                IN  /\ data.cls = "dict"
                    /\ NoRepeats(data.keys)
                    /\ DataPairs(data) = LastWins(norm)

\* The key lower-cased with its spaces replaced by underscores.
KeyAsStated(key) == Replace(Lower(key), <<" ">>, <<"_">>)

\* The key trimmed of surrounding whitespace, then lower-cased with the
\* spaces left inside it replaced by underscores.
KeyTrimmedFirst(key) == Replace(Lower(Strip(key)), <<" ">>, <<"_">>)

\* C19 as stated: one key_value_pairs fragment and one key_values record
\* iff a line matched; the data maps each key, lower-cased and with every
\* space replaced by an underscore, to the value of the last line with it.
C19_KeyValuesMerged == OneKeyValueRecord(KeyAsStated)

\* C19 as amended: the same, the key being trimmed of surrounding
\* whitespace before it is lower-cased and its inner spaces replaced.
C19_KeyValuesMergedTrimmed == OneKeyValueRecord(KeyTrimmedFirst)

\* Two lines whose keys normalise to one key, the later value kept.
C19_Witness ==
    /\ KvDone
    /\ Len(p_text.kv) = 2
    /\ p_text.kv[1].key # p_text.kv[2].key
    /\ Strip(p_text.kv[1].value) # Strip(p_text.kv[2].value)
    /\ Len(RecordsOf(key_values)) = 1
    /\ DataPairs(RecordsOf(key_values)[1].data)
         = { <<KeyTrimmedFirst(p_text.kv[2].key), Strip(p_text.kv[2].value)>> }

HtmlDone == p_stage \in {"yaml", "csv", "key_values", "text", "returned"}

\* The rows of a table that hold data: its rows with cells, less the first
\* one when its cells become the column names.
DataRows(table) ==
    LET rows    == SelectSeq(table.trs, LAMBDA tr : tr # <<>>)
        headers == SelectSeq(Flatten2(table.trs), LAMBDA c : c.kind = "th")
    IN  IF rows = <<>> THEN 0
        ELSE IF headers # <<>> /\ Len(headers) = Len(rows[1]) THEN Len(rows) - 1
        ELSE Len(rows)

\* C20: a table without data rows (no rows, or a header row alone) gets no
\* html_table fragment and no html_table_<index> record and does not count
\* in html_tables.
C20_EmptyTableSkipped ==
    HtmlDone =>
        /\ \A i \in 1..Len(p_text.tables) :
              DataRows(p_text.tables[i]) = 0 =>
                  RecordsOf(html_table_ \o IntToStr(i - 1)) = <<>>
        /\ Len(FragmentsOf("html_table")) =
              Cardinality({ i \in 1..Len(p_text.tables) :
                              DataRows(p_text.tables[i]) > 0 })
        /\ p_summary["html_tables"] = Len(FragmentsOf("html_table"))

(***************************************************************************)
(* DynamicETLPipeline.process, one call after the other.  A call touches   *)
(* the storage four times: latest_version, get_schema, save_records and    *)
(* save_schema; each is one step.                                          *)
(***************************************************************************)
Init ==
    /\ StoreAtRest
    /\ DdlAtRest
    /\ BuildAtRest
    /\ DiffAtRest
    /\ ParseAtRest

Finished(c) == calls[c].pc \in {"done", "raised"}

Raise(c, exception) ==
    calls' = [ calls EXCEPT ![c] = [ IdleCall EXCEPT !.pc = "raised",
                                                     !.raised = exception ] ]

\* How far a call has come.
Progress(pc) ==
    CASE pc = "idle"          -> 0
      [] pc = "raised"        -> 1
      [] pc = "resolved"      -> 1
      [] pc = "built"         -> 2
      [] pc = "records_saved" -> 3
      [] pc = "done"          -> 4

\* The steps taken so far: a clock that every read of latest_version and
\* every save_schema advances.
RECURSIVE StepsOf(_)
StepsOf(c) == IF c = 0 THEN 0 ELSE Progress(calls[c].pc) + StepsOf(c - 1)

Clock == StepsOf(MaxCalls)

\* ingestor.read, parser.parse and, without a version argument,
\* storage.latest_version(source_id) + 1
Begin(c) ==
    /\ calls[c].pc = "idle"
    /\ \E supported \in BOOLEAN, source_id \in SourceIds,
          version \in VersionArgs, text \in UploadTexts :
          LET parsed == parse(text)
          IN  IF ~supported THEN Raise(c, "ValueError")
              ELSE IF parsed.raised # "none" THEN Raise(c, parsed.raised)
              ELSE calls' =
                     [ calls EXCEPT ![c] =
                         [ IdleCall EXCEPT
                             !.pc = "resolved",
                             !.given = version.given,
                             !.resolved_at = Clock + 1,
                             !.source_id = source_id,
                             !.version = IF version.given THEN version.value
                                         ELSE latest_version(schemas, source_id) + 1,
                             !.records = parsed.records ] ]
    /\ UNCHANGED <<schemas, db_records, local_schemas, local_records,
                   build_vars, diff_vars, parse_vars, ddl_vars>>

\* process, when the caller makes one call after the other.
Resolve(c) ==
    /\ \A d \in 1..(c - 1) : Finished(d)
    /\ Begin(c)

\* storage.get_schema(source_id, version - 1) and schema_generator.build.
\* had_lower notes whether the source then had a schema of a lower version.
GetPrevious(c) ==
    /\ calls[c].pc = "resolved"
    /\ LET call == calls[c]
           previous_schema == get_schema(schemas, call.source_id, call.version - 1)
           built == build(call.source_id, call.version, call.records, previous_schema)
       IN  IF built.raised # "none" THEN Raise(c, built.raised)
           ELSE calls' =
                  [ calls EXCEPT ![c] =
                      [ call EXCEPT
                          !.pc = "built",
                          !.schema = built.schema,
                          !.diff = built.diff,
                          !.had_lower =
                              \E k \in DOMAIN schemas :
                                  k[1] = call.source_id /\ k[2] < call.version ] ]
    /\ UNCHANGED <<schemas, db_records, local_schemas, local_records,
                   build_vars, diff_vars, parse_vars, ddl_vars>>

\* storage.save_records(source_id, version, records)
SaveRecords(c) ==
    /\ calls[c].pc = "built"
    /\ LET call == calls[c]
       IN  /\ db_records' = IF call.records = <<>> THEN db_records
                            ELSE save_records(db_records, call.source_id,
                                              call.version, call.records)
           /\ local_records' = _persist_local_records(local_records, call.source_id,
                                                      call.version, call.records)
    /\ calls' = [ calls EXCEPT ![c].pc = "records_saved" ]
    /\ UNCHANGED <<schemas, local_schemas, build_vars, diff_vars, parse_vars, ddl_vars>>

\* storage.save_schema(schema, diff), then the result is returned
SaveSchema(c) ==
    /\ calls[c].pc = "records_saved"
    /\ schemas' = save_schema(schemas, calls[c].schema, calls[c].diff)
    /\ local_schemas' = _persist_local_schema(local_schemas, calls[c].schema)
    /\ calls' = [ calls EXCEPT ![c].pc = "done", ![c].saved_at = Clock + 1 ]
    /\ UNCHANGED <<db_records, local_records, build_vars, diff_vars, parse_vars, ddl_vars>>

Next ==
    \E c \in 1..MaxCalls :
        \/ Resolve(c)
        \/ GetPrevious(c)
        \/ SaveRecords(c)
        \/ SaveSchema(c)

Spec == Init /\ [][Next]_vars

\* C4: once a schema document is stored for a (source_id, version) pair, no
\* later call replaces or modifies it; a call that stores a schema stores it
\* under a pair that had none.
C4_StoredSchemaImmutable ==
    [][ /\ \A k \in DOMAIN schemas :
              k \in DOMAIN schemas' /\ schemas'[k] = schemas[k]
        /\ \A c \in 1..MaxCalls :
              (calls[c].pc = "records_saved" /\ calls'[c].pc = "done") =>
                  <<calls[c].source_id, calls[c].version>> \notin DOMAIN schemas
      ]_vars

Built(c) == calls[c].pc \in {"built", "records_saved", "done"}

\* C5: a call on a source that has a stored schema of a lower version than
\* the one it resolves to returns a diff against a stored schema, with its
\* removed and changed lists; the "Initial schema." report goes only to a
\* call on a source without such a schema.
C5_DiffAgainstPreceding ==
    \A c \in 1..MaxCalls :
        (Built(c) /\ calls[c].had_lower) =>
            /\ {"removed", "changed"} \subseteq calls[c].diff.keys
            /\ calls[c].diff.notes # InitialNotes

(***************************************************************************)
(* DynamicETLPipeline.process, the calls running side by side (one upload  *)
(* per request thread): the storage steps of different calls interleave.   *)
(***************************************************************************)
NextConcurrent ==
    \E c \in 1..MaxCalls :
        \/ Begin(c)
        \/ GetPrevious(c)
        \/ SaveRecords(c)
        \/ SaveSchema(c)

SpecConcurrent == Init /\ [][NextConcurrent]_vars

\* The (source_id, version) pair a call works on.
PairOf(c) == <<calls[c].source_id, calls[c].version>>

HasResolved(c) == calls[c].pc \in {"resolved", "built", "records_saved", "done"}

HasSavedRecords(c) == calls[c].pc \in {"records_saved", "done"}

HasSavedSchema(c) == calls[c].pc = "done"

\* c read latest_version before d wrote its schema.
ReadBeforeWrite(c, d) ==
    HasSavedSchema(d) => calls[c].resolved_at < calls[d].saved_at

\* Two calls without a version argument on one source, each reading
\* latest_version before the other saved its schema, no third call saving a
\* schema of that source between the two reads.
Raced(c, d) ==
    /\ c # d
    /\ HasResolved(c) /\ HasResolved(d)
    /\ ~calls[c].given /\ ~calls[d].given
    /\ calls[c].source_id = calls[d].source_id
    /\ ReadBeforeWrite(c, d) /\ ReadBeforeWrite(d, c)
    /\ \A e \in 1..MaxCalls \ {c, d} :
          (HasSavedSchema(e) /\ calls[e].source_id = calls[c].source_id) =>
              \/ calls[e].saved_at < calls[c].resolved_at
                   /\ calls[e].saved_at < calls[d].resolved_at
              \/ calls[e].saved_at > calls[c].resolved_at
                   /\ calls[e].saved_at > calls[d].resolved_at

\* The number of records the calls 1..c have saved under a pair.
RECURSIVE RecordsSavedUnder(_, _)
RecordsSavedUnder(pair, c) ==
    IF c = 0 THEN 0
    ELSE (IF HasSavedRecords(c) /\ PairOf(c) = pair THEN Len(calls[c].records) ELSE 0)
         + RecordsSavedUnder(pair, c - 1)

\* The stored document is the schema and the diff of call c.
StoredIsOf(c) ==
    /\ PairOf(c) \in DOMAIN schemas
    /\ schemas[PairOf(c)].diff = calls[c].diff
    /\ \A f \in DOMAIN calls[c].schema : schemas[PairOf(c)][f] = calls[c].schema[f]

\* C15: two calls without a version argument on one source that both read
\* latest_version before either saves its schema get the same version; of
\* the calls that saved a schema under one pair, the stored document is that
\* of the one that saved last, and the records of all of them are stored
\* under the pair.
C15_DuplicateVersion ==
    /\ \A c, d \in 1..MaxCalls :
          Raced(c, d) => calls[c].version = calls[d].version
    /\ \A c \in 1..MaxCalls :
          HasSavedSchema(c) =>
              /\ (\A d \in 1..MaxCalls :
                     (HasSavedSchema(d) /\ PairOf(d) = PairOf(c)) =>
                         calls[d].saved_at <= calls[c].saved_at)
                  => StoredIsOf(c)
              /\ Len(SelectSeq(db_records,
                               LAMBDA doc : <<doc.source_id, doc.version>> = PairOf(c)))
                   = RecordsSavedUnder(PairOf(c), MaxCalls)

\* Two raced calls that are done under one version with different schemas:
\* the stored document is the later one's, and the records of both are there.
C15_Witness ==
    \E c, d \in 1..MaxCalls :
        /\ Raced(c, d)
        /\ HasSavedSchema(c) /\ HasSavedSchema(d)
        /\ calls[c].saved_at < calls[d].saved_at
        /\ PairOf(c) = PairOf(d)
        /\ calls[c].records # <<>> /\ calls[d].records # <<>>
        /\ calls[c].schema.fields # calls[d].schema.fields
        /\ StoredIsOf(d)
        /\ ~StoredIsOf(c)
        /\ Len(db_records) = Len(calls[c].records) + Len(calls[d].records)

(***************************************************************************)
(* What the calls leave in the records collection and in the record files  *)
(* (checked under Spec, where the calls follow one another in index order).*)
(***************************************************************************)
\* The documents the records of call c make.
DocsOf(c) ==
    [ i \in 1..Len(calls[c].records) |->
        [ source_id    |-> calls[c].source_id,
          version      |-> calls[c].version,
          collection   |-> calls[c].records[i].collection,
          data         |-> calls[c].records[i].data,
          source_range |-> calls[c].records[i].source_range ] ]

\* The documents of the calls 1..c that have saved their records, in call
\* order.
RECURSIVE DocsUpTo(_)
DocsUpTo(c) ==
    IF c = 0 THEN <<>>
    ELSE DocsUpTo(c - 1) \o (IF HasSavedRecords(c) THEN DocsOf(c) ELSE <<>>)

\* The record lists of the calls 1..c that have saved their records under a
\* pair, one after the other in call order.
RECURSIVE RecordsUpTo(_, _)
RecordsUpTo(pair, c) ==
    IF c = 0 THEN <<>>
    ELSE RecordsUpTo(pair, c - 1)
         \o (IF HasSavedRecords(c) /\ PairOf(c) = pair THEN calls[c].records
             ELSE <<>>)

\* The calls that have saved records, not none, under a pair.
WritersOf(pair) ==
    { c \in 1..MaxCalls :
        HasSavedRecords(c) /\ PairOf(c) = pair /\ calls[c].records # <<>> }

\* The records collection holds, in call order, the documents of every call
\* that has saved its records and nothing else; a call without records is
\* done with its schema stored.
CollectionAppendOnly ==
    /\ db_records = DocsUpTo(MaxCalls)
    /\ \A c \in 1..MaxCalls :
          (HasSavedSchema(c) /\ calls[c].records = <<>>) =>
              PairOf(c) \in DOMAIN schemas

\* C21 as stated: whatever is stored for a pair, the documents of the
\* records collection and the pair's record file alike, is the concatenation
\* in call order of the record lists of the calls on that pair; nothing
\* stored is removed or replaced; a call without records stores none and
\* still stores its schema.
C21_RecordsAppendOnly ==
    /\ CollectionAppendOnly
    /\ DOMAIN local_records = { pair \in { PairOf(c) : c \in 1..MaxCalls } :
                                  WritersOf(pair) # {} }
    /\ \A pair \in DOMAIN local_records :
          local_records[pair] = RecordsUpTo(pair, MaxCalls)

\* C21 as amended: the documents of the records collection are append-only
\* as stated, while the record file of a pair holds the record list of the
\* last call that saved records, not none, under the pair.
C21_CollectionAppendOnlyFileLast ==
    /\ CollectionAppendOnly
    /\ DOMAIN local_records = { pair \in { PairOf(c) : c \in 1..MaxCalls } :
                                  WritersOf(pair) # {} }
    /\ \A pair \in DOMAIN local_records :
          LET last == CHOOSE c \in WritersOf(pair) : \A d \in WritersOf(pair) : d <= c
          IN  local_records[pair] = calls[last].records

\* Two calls done on one pair with different records: the collection holds
\* the documents of both in call order, the file those of the second.
C21_Witness ==
    /\ HasSavedSchema(1) /\ HasSavedSchema(2)
    /\ PairOf(1) = PairOf(2)
    /\ calls[1].records # <<>> /\ calls[2].records # <<>>
    /\ calls[1].records # calls[2].records
    /\ db_records = DocsOf(1) \o DocsOf(2)
    /\ local_records[PairOf(1)] = calls[2].records

====
